---- MODULE Spec2Model ----
(***************************************************************************)
(* Model of the Apollo usage-report plugin                                 *)
(* (packages/plugins/apollo-usage-report/src/index.ts).                    *)
(*                                                                         *)
(* The plugin keeps one process-wide "current schema id" that is written   *)
(* by the completion of an asynchronous hash started in onSchemaChange,    *)
(* stamps it together with an operation key onto the per-operation trace   *)
(* record in onEnveloped, and in onResultProcess groups the records of a   *)
(* request per schema id and starts one sendTrace per group.               *)
(***************************************************************************)
EXTENDS Integers, Sequences, FiniteSets, TLC

\* ------------------------------------------------------------------ bounds
MaxRequests == 2        \* requests in flight
MaxOps == 2             \* operations enveloped, over all requests
MaxSchemaChanges == 2   \* schema-change notifications
\* the same three bounds under SpecConfig, which explores every configuration
ConfigRequests == 1
ConfigOps == 1
ConfigSchemaChanges == 1

\* ------------------------------------------------------- JavaScript values
Undef == "undefined"                 \* the JS value undefined
Truthy(v) == v # Undef /\ v # ""     \* truthiness of an optional string

Requests == 1..MaxRequests
Schemas == {"A", "B"}

\* option / environment values of the API key and of the graph ref
OptKeys == {Undef, "", "optKey"}
EnvKeys == {Undef, "", "envKey"}
OptRefs == {Undef, "", "optRef"}
EnvRefs == {Undef, "", "envRef"}

\* params.operationName
OperationNames == {Undef, "", "Q"}

\* params.query, as the sequence of its characters; UndefQuery is "no query"
UndefQuery == <<Undef>>
Queries ==
  { UndefQuery,
    <<>>,
    <<"{", " ", "a", ",", " ", "a", " ", "}">>,
    <<"{", "a", " ", "a", "}">>,
    <<"?">> }

VARIABLES
  options,      \* plugin options: [apiKey, graphRef]
  env,          \* process.env: [APOLLO_KEY, APOLLO_GRAPH_REF]
  yogaInit,     \* "pending" | "ok" | "missingKey" | "missingGraphRef"
  schemaId,     \* the closure variable `let schemaId: string`
  hashJobs,     \* pending hashSHA256(...).then(...) computations
  nChanges,     \* number of schema-change notifications so far
  latest,       \* history: printed schema of the most recent activation
  phase,        \* per request: "new" | "open" | "done"
  ctxForReq,    \* per request: [present, traces] (the WeakMap entry)
  nOps,         \* per request: operations enveloped so far
  tasks,        \* the promises handed to serverContext.waitUntil, in order
  errors,       \* errors raised into request handling: <<request, hook>>
  results,      \* per request: the kind of result given to onResultProcess
  dispatch      \* per request: what onResultProcess did

vars == << options, env, yogaInit, schemaId, hashJobs, nChanges, latest,
           phase, ctxForReq, nOps, tasks, errors, results, dispatch >>

\* ------------------------------------------------------------ configuration
\* faulty variant of getEnvVar: the default value is ignored
getEnvVarNoDefault(name, defaultValue) ==
  IF Truthy(env[name]) THEN env[name] ELSE Undef

\* getEnvVar(name, defaultValue): env[name] || defaultValue || undefined
getEnvVar(name, defaultValue) ==
  IF Truthy(env[name]) THEN env[name]
  ELSE IF Truthy(defaultValue) THEN defaultValue
  ELSE Undef

\* ------------------------------------------------------------------ hashing
printSchema(schema) == "type Query{" \o schema \o "}"
hashSHA256(str) == "sha256:" \o str

\* ------------------------------------------------------------------- Init
\* the state of the closure of useApolloUsageReport right after construction
Constructed ==
  /\ yogaInit = "pending"
  /\ schemaId = Undef
  /\ hashJobs = {}
  /\ nChanges = 0
  /\ latest = Undef
  /\ phase = [r \in Requests |-> "new"]
  /\ ctxForReq = [r \in Requests |-> [present |-> FALSE, traces |-> <<>>]]
  /\ nOps = [r \in Requests |-> 0]
  /\ tasks = <<>>
  /\ errors = {}
  /\ results = [r \in Requests |-> "none"]
  /\ dispatch = [r \in Requests |-> "none"]

\* a plugin configured through its options, nothing in the environment
Init ==
  /\ options = [apiKey |-> "optKey", graphRef |-> "optRef"]
  /\ env = [APOLLO_KEY |-> Undef, APOLLO_GRAPH_REF |-> Undef]
  /\ Constructed

\* every combination of option and environment values
InitConfig ==
  /\ options \in [apiKey : OptKeys, graphRef : OptRefs]
  /\ env \in [APOLLO_KEY : EnvKeys, APOLLO_GRAPH_REF : EnvRefs]
  /\ Constructed

\* ---------------------------------------------------------------- actions
\* onYogaInit: throws when the API key or the graph ref is missing
onYogaInit ==
  /\ yogaInit = "pending"
  /\ yogaInit' =
       IF ~Truthy(getEnvVar("APOLLO_KEY", options.apiKey)) THEN "missingKey"
       ELSE IF ~Truthy(getEnvVar("APOLLO_GRAPH_REF", options.graphRef))
            THEN "missingGraphRef"
       ELSE "ok"
  /\ UNCHANGED << options, env, schemaId, hashJobs, nChanges, latest, phase,
                  ctxForReq, nOps, tasks, errors, results, dispatch >>

\* faulty variant of onSchemaChange: the notification is hashed even when it
\* carries no schema
onSchemaChangeUnguarded(schema) ==
  /\ yogaInit \in {"pending", "ok"}
  /\ nChanges < MaxSchemaChanges
  /\ nChanges' = nChanges + 1
  /\ hashJobs' = hashJobs \cup
        {[id |-> nChanges + 1, str |-> printSchema(schema)]}
  /\ latest' = IF schema # Undef THEN printSchema(schema) ELSE latest
  /\ UNCHANGED << options, env, yogaInit, schemaId, phase, ctxForReq, nOps,
                  tasks, errors, results, dispatch >>

\* onSchemaChange({ schema }): starts the asynchronous hash of the printed
\* schema; a notification without a schema does nothing
onSchemaChange(schema) ==
  /\ yogaInit \in {"pending", "ok"}
  /\ nChanges < MaxSchemaChanges
  /\ nChanges' = nChanges + 1
  /\ IF schema # Undef
     THEN /\ hashJobs' = hashJobs \cup
                 {[id |-> nChanges + 1, str |-> printSchema(schema)]}
          /\ latest' = printSchema(schema)
     ELSE UNCHANGED << hashJobs, latest >>
  /\ UNCHANGED << options, env, yogaInit, schemaId, phase, ctxForReq, nOps,
                  tasks, errors, results, dispatch >>

\* faulty variant of hashResolved: the records hold a live reference to the
\* current schema id, so a completed hash also rewrites the stamped records
hashResolvedLive(job) ==
  /\ job \in hashJobs
  /\ schemaId' = hashSHA256(job.str)
  /\ hashJobs' = hashJobs \ {job}
  /\ ctxForReq' =
       [r \in Requests |->
          [ctxForReq[r] EXCEPT !.traces =
             [i \in 1..Len(ctxForReq[r].traces) |->
                IF Truthy(ctxForReq[r].traces[i].operationKey)
                THEN [ctxForReq[r].traces[i] EXCEPT !.schemaId = hashSHA256(job.str)]
                ELSE ctxForReq[r].traces[i]]]]
  /\ UNCHANGED << options, env, yogaInit, nChanges, latest, phase,
                  nOps, tasks, errors, results, dispatch >>

\* .then(id => { schemaId = id }): one pending hash completes.  The digests
\* are independent promises, so any pending one may complete next.
hashResolved(job) ==
  /\ job \in hashJobs
  /\ schemaId' = hashSHA256(job.str)
  /\ hashJobs' = hashJobs \ {job}
  /\ UNCHANGED << options, env, yogaInit, nChanges, latest, phase, ctxForReq,
                  nOps, tasks, errors, results, dispatch >>

\* The upstream instrumentation registers the request in ctxForReq (or does
\* not, for a request it does not trace).
onRequest(r, present) ==
  /\ yogaInit = "ok"
  /\ phase[r] = "new"
  /\ \A q \in Requests : q < r => phase[q] # "new"
  /\ phase' = [phase EXCEPT ![r] = "open"]
  /\ ctxForReq' = [ctxForReq EXCEPT ![r] = [present |-> present, traces |-> <<>>]]
  /\ UNCHANGED << options, env, yogaInit, schemaId, hashJobs, nChanges, latest,
                  nOps, tasks, errors, results, dispatch >>

\* ------------------------------------------------- stripIgnoredCharacters
IsIgnored(c) == c \in {" ", ","}
IsPunctuator(c) == c \in {"{", "}"}
IsNameChar(c) == c \in {"a"}

\* The lexer walks the source: ignored characters are dropped, one space is
\* kept between two adjacent non-punctuator tokens, and a character that
\* starts no token is a syntax error.
RECURSIVE stripFrom(_, _, _, _, _)
stripFrom(src, i, body, wasNonPunctuator, inName) ==
  IF i > Len(src) THEN [threw |-> FALSE, text |-> body]
  ELSE LET c == src[i] IN
    IF IsIgnored(c) THEN stripFrom(src, i + 1, body, wasNonPunctuator, FALSE)
    ELSE IF IsPunctuator(c) THEN stripFrom(src, i + 1, body \o c, FALSE, FALSE)
    ELSE IF IsNameChar(c) THEN
      IF inName THEN stripFrom(src, i + 1, body \o c, TRUE, TRUE)
      ELSE stripFrom(src, i + 1,
                     (IF wasNonPunctuator THEN body \o " " ELSE body) \o c,
                     TRUE, TRUE)
    ELSE [threw |-> TRUE, text |-> Undef]

stripIgnoredCharacters(src) == stripFrom(src, 1, "", FALSE, FALSE)

\* const signature = params.query ? stripIgnoredCharacters(params.query) : ''
signature(query) ==
  IF query = UndefQuery \/ query = <<>> THEN [threw |-> FALSE, text |-> ""]
  ELSE stripIgnoredCharacters(query)

\* faulty variant of operationKey: only an undefined operation name gets the
\* placeholder (?? in place of ||)
operationKeyNullish(operationName, sig) ==
  "# " \o (IF operationName # Undef THEN operationName ELSE "-") \o "\n" \o sig

\* `# ${operationName || '-'}\n${signature}`
operationKey(operationName, sig) ==
  "# " \o (IF Truthy(operationName) THEN operationName ELSE "-") \o "\n" \o sig

\* the two assignments of onEnveloped on the trace record ctx
stamp(ctx, operationName, sig) ==
  [ctx EXCEPT !.operationKey = operationKey(operationName, sig),
              !.schemaId = schemaId]

\* The trace record the upstream instrumentation creates for an operation.
newTrace(context) ==
  [context |-> context, operationKey |-> Undef, schemaId |-> Undef,
   trace |-> <<"trace", context>>]

\* traces' of request r after the instrumentation has seen the operation
instrumented(r, context, hasContext, traced) ==
  IF hasContext /\ traced /\ ctxForReq[r].present
  THEN Append(ctxForReq[r].traces, newTrace(context))
  ELSE ctxForReq[r].traces

\* position of the record of `context` in a trace list, 0 when there is none
IndexOf(traces, context) ==
  IF \E i \in 1..Len(traces) : traces[i].context = context
  THEN CHOOSE i \in 1..Len(traces) : traces[i].context = context
  ELSE 0

\* operations enveloped so far, over all requests
RECURSIVE SumOps(_)
SumOps(rs) ==
  IF rs = {} THEN 0
  ELSE LET r == CHOOSE q \in rs : TRUE IN nOps[r] + SumOps(rs \ {r})

\* faulty variant of onEnveloped: the signature is computed before the trace
\* context is looked up, so an operation that is not traced can throw
onEnvelopedSignatureFirst(r, hasContext, traced, operationName, query) ==
  /\ phase[r] = "open"
  /\ SumOps(Requests) < MaxOps
  /\ nOps' = [nOps EXCEPT ![r] = nOps[r] + 1]
  /\ LET context == <<r, nOps[r] + 1>>
         traces == instrumented(r, context, hasContext, traced)
         i == IndexOf(traces, context)
         sig == signature(query)
     IN IF hasContext /\ sig.threw
        THEN /\ ctxForReq' = [ctxForReq EXCEPT ![r].traces = traces]
             /\ errors' = errors \cup {<<r, "onEnveloped">>}
        ELSE IF ~hasContext \/ i = 0
        THEN /\ ctxForReq' = [ctxForReq EXCEPT ![r].traces = traces]
             /\ UNCHANGED errors
        ELSE /\ ctxForReq' = [ctxForReq EXCEPT ![r].traces =
                    [traces EXCEPT ![i] = stamp(traces[i], operationName, sig.text)]]
             /\ UNCHANGED errors
  /\ UNCHANGED << options, env, yogaInit, schemaId, hashJobs, nChanges, latest,
                  phase, tasks, results, dispatch >>

\* onEnveloped({ context }), run right after the instrumentation's own
\* onEnveloped hook for the same operation.
onEnveloped(r, hasContext, traced, operationName, query) ==
  /\ phase[r] = "open"
  /\ SumOps(Requests) < MaxOps
  /\ nOps' = [nOps EXCEPT ![r] = nOps[r] + 1]
  /\ LET context == <<r, nOps[r] + 1>>
         traces == instrumented(r, context, hasContext, traced)
         i == IndexOf(traces, context)
         sig == signature(query)
     IN IF ~hasContext \/ i = 0
        THEN \* no context, or no trace context: the operation is not traced
             /\ ctxForReq' = [ctxForReq EXCEPT ![r].traces = traces]
             /\ UNCHANGED errors
        ELSE IF sig.threw
        THEN \* stripIgnoredCharacters throws out of the hook
             /\ ctxForReq' = [ctxForReq EXCEPT ![r].traces = traces]
             /\ errors' = errors \cup {<<r, "onEnveloped">>}
        ELSE /\ ctxForReq' = [ctxForReq EXCEPT ![r].traces =
                    [traces EXCEPT ![i] = stamp(traces[i], operationName, sig.text)]]
             /\ UNCHANGED errors
  /\ UNCHANGED << options, env, yogaInit, schemaId, hashJobs, nChanges, latest,
                  phase, tasks, results, dispatch >>

\* ----------------------------------------------------------------- dispatch
EmptyMap == [k \in {} |-> <<>>]

\* faulty variant of groupTraces: the list of an operation key is replaced
\* instead of appended to
RECURSIVE groupTracesOverwrite(_, _)
groupTracesOverwrite(traces, acc) ==
  IF traces = <<>> THEN acc
  ELSE LET trace == Head(traces) IN
    IF ~Truthy(trace.schemaId) \/ ~Truthy(trace.operationKey)
    THEN [acc EXCEPT !.threw = TRUE]
    ELSE LET sid == trace.schemaId
             key == trace.operationKey
             known == sid \in DOMAIN acc.perSchema
             perQuery == IF known THEN acc.perSchema[sid] ELSE EmptyMap
             perQuery2 == [k \in DOMAIN perQuery \cup {key} |->
                             IF k = key THEN <<trace.trace>> ELSE perQuery[k]]
         IN groupTracesOverwrite(Tail(traces),
              [threw |-> FALSE,
               order |-> IF known THEN acc.order ELSE Append(acc.order, sid),
               perSchema |-> [s \in DOMAIN acc.perSchema \cup {sid} |->
                                IF s = sid THEN perQuery2 ELSE acc.perSchema[s]]])

\* faulty variant of groupTraces: a record without schemaId or operationKey
\* is skipped instead of raising
RECURSIVE groupTracesSkip(_, _)
groupTracesSkip(traces, acc) ==
  IF traces = <<>> THEN acc
  ELSE LET trace == Head(traces) IN
    IF ~Truthy(trace.schemaId) \/ ~Truthy(trace.operationKey)
    THEN groupTracesSkip(Tail(traces), acc)
    ELSE LET sid == trace.schemaId
             key == trace.operationKey
             known == sid \in DOMAIN acc.perSchema
             perQuery == IF known THEN acc.perSchema[sid] ELSE EmptyMap
             list == IF key \in DOMAIN perQuery THEN perQuery[key] ELSE <<>>
             perQuery2 == [k \in DOMAIN perQuery \cup {key} |->
                             IF k = key THEN Append(list, trace.trace)
                             ELSE perQuery[k]]
         IN groupTracesSkip(Tail(traces),
              [threw |-> FALSE,
               order |-> IF known THEN acc.order ELSE Append(acc.order, sid),
               perSchema |-> [s \in DOMAIN acc.perSchema \cup {sid} |->
                                IF s = sid THEN perQuery2 ELSE acc.perSchema[s]]])

\* The first loop of onResultProcess: tracesPerSchema[schemaId][operationKey]
\* .trace.push(trace.trace) for every record, in the order of the Map; a
\* record without schemaId or operationKey throws.  `order` is the insertion
\* order of the schema ids, which is the order of the for-in loop.
RECURSIVE groupTraces(_, _)
groupTraces(traces, acc) ==
  IF traces = <<>> THEN acc
  ELSE LET trace == Head(traces) IN
    IF ~Truthy(trace.schemaId) \/ ~Truthy(trace.operationKey)
    THEN [acc EXCEPT !.threw = TRUE]
    ELSE LET sid == trace.schemaId
             key == trace.operationKey
             known == sid \in DOMAIN acc.perSchema
             perQuery == IF known THEN acc.perSchema[sid] ELSE EmptyMap
             list == IF key \in DOMAIN perQuery THEN perQuery[key] ELSE <<>>
             perQuery2 == [k \in DOMAIN perQuery \cup {key} |->
                             IF k = key THEN Append(list, trace.trace)
                             ELSE perQuery[k]]
         IN groupTraces(Tail(traces),
              [threw |-> FALSE,
               order |-> IF known THEN acc.order ELSE Append(acc.order, sid),
               perSchema |-> [s \in DOMAIN acc.perSchema \cup {sid} |->
                                IF s = sid THEN perQuery2 ELSE acc.perSchema[s]]])

tracesPerSchema(traces) ==
  groupTraces(traces, [threw |-> FALSE, order |-> <<>>, perSchema |-> EmptyMap])

\* faulty variant of sendTrace: operationCount counts the payloads of the report
sendTraceCounting(executableSchemaId, tracesPerQuery) ==
  LET graphRef == IF options.graphRef = Undef
                  THEN getEnvVar("APOLLO_GRAPH_REF", Undef)
                  ELSE options.graphRef
      apiKey == IF options.apiKey = Undef
                THEN getEnvVar("APOLLO_KEY", Undef)
                ELSE options.apiKey
      RECURSIVE count(_)
      count(keys) == IF keys = {} THEN 0
                     ELSE LET k == CHOOSE x \in keys : TRUE
                          IN Len(tracesPerQuery[k]) + count(keys \ {k})
  IN [report |-> [header |-> [graphRef |-> graphRef,
                              executableSchemaId |-> executableSchemaId],
                  operationCount |-> count(DOMAIN tracesPerQuery),
                  tracesPerQuery |-> tracesPerQuery],
      xApiKey |-> apiKey,
      posts |-> 1,
      pc |-> "fetching",
      response |-> "none",
      logged |-> "none",
      threw |-> FALSE]

\* sendTrace up to its first await: the report is encoded and the POST is
\* issued.  graphRef and apiKey are destructured from the options, with the
\* environment as the default of an undefined option.
sendTrace(executableSchemaId, tracesPerQuery) ==
  LET graphRef == IF options.graphRef = Undef
                  THEN getEnvVar("APOLLO_GRAPH_REF", Undef)
                  ELSE options.graphRef
      apiKey == IF options.apiKey = Undef
                THEN getEnvVar("APOLLO_KEY", Undef)
                ELSE options.apiKey
  IN [report |-> [header |-> [graphRef |-> graphRef,
                              executableSchemaId |-> executableSchemaId],
                  operationCount |-> 1,
                  tracesPerQuery |-> tracesPerQuery],
      xApiKey |-> apiKey,
      posts |-> 1,
      pc |-> "fetching",
      response |-> "none",
      logged |-> "none",
      threw |-> FALSE]

\* faulty variant of scheduled: only the first schema id gets a delivery
scheduledFirstOnly(r, grouped) ==
  [i \in 1..(IF Len(grouped.order) > 0 THEN 1 ELSE 0) |->
     [request |-> r,
      send |-> sendTrace(grouped.order[i], grouped.perSchema[grouped.order[i]])]]

\* The second loop of onResultProcess: one waitUntil(sendTrace(...)) per
\* schema id, tagged with the request whose dispatch scheduled it.
scheduled(r, grouped) ==
  [i \in 1..Len(grouped.order) |->
     [request |-> r,
      send |-> sendTrace(grouped.order[i], grouped.perSchema[grouped.order[i]])]]

\* the kinds of result a request ends with
Results == {"asyncIterable", "executionResult"}
\* faulty variant of isAsyncIterable: no result is recognised as streamed
isAsyncIterableNever(result) == FALSE
isAsyncIterable(result) == result = "asyncIterable"

\* faulty variant of onResultProcess: one loop groups and schedules, so the
\* groups completed before a malformed record are sent although the hook throws
onResultProcessEager(r, result) ==
  /\ phase[r] = "open"
  /\ phase' = [phase EXCEPT ![r] = "done"]
  /\ results' = [results EXCEPT ![r] = result]
  /\ IF isAsyncIterable(result)
     THEN /\ dispatch' = [dispatch EXCEPT ![r] = "streamed"]
          /\ UNCHANGED << tasks, errors >>
     ELSE IF ~ctxForReq[r].present
     THEN /\ dispatch' = [dispatch EXCEPT ![r] = "untraced"]
          /\ UNCHANGED << tasks, errors >>
     ELSE LET grouped == tracesPerSchema(ctxForReq[r].traces) IN
          /\ dispatch' = [dispatch EXCEPT ![r] =
                            IF grouped.threw THEN "raised" ELSE "scheduled"]
          /\ errors' = IF grouped.threw
                       THEN errors \cup {<<r, "onResultProcess">>} ELSE errors
          /\ tasks' = tasks \o scheduled(r, grouped)
  /\ UNCHANGED << options, env, yogaInit, schemaId, hashJobs, nChanges, latest,
                  ctxForReq, nOps >>

\* faulty variant of onResultProcess: the trace set is not looked up by
\* request, the records of every request in flight are grouped
onResultProcessShared(r, result) ==
  /\ phase[r] = "open"
  /\ phase' = [phase EXCEPT ![r] = "done"]
  /\ results' = [results EXCEPT ![r] = result]
  /\ IF isAsyncIterable(result)
     THEN /\ dispatch' = [dispatch EXCEPT ![r] = "streamed"]
          /\ UNCHANGED << tasks, errors >>
     ELSE IF ~ctxForReq[r].present
     THEN /\ dispatch' = [dispatch EXCEPT ![r] = "untraced"]
          /\ UNCHANGED << tasks, errors >>
     ELSE LET others == CHOOSE q \in Requests : q # r
              grouped == tracesPerSchema(ctxForReq[r].traces
                                           \o ctxForReq[others].traces) IN
          IF grouped.threw
          THEN /\ dispatch' = [dispatch EXCEPT ![r] = "raised"]
               /\ errors' = errors \cup {<<r, "onResultProcess">>}
               /\ UNCHANGED tasks
          ELSE /\ dispatch' = [dispatch EXCEPT ![r] = "scheduled"]
               /\ tasks' = tasks \o scheduled(r, grouped)
               /\ UNCHANGED errors
  /\ UNCHANGED << options, env, yogaInit, schemaId, hashJobs, nChanges, latest,
                  ctxForReq, nOps >>

\* onResultProcess({ request, result, serverContext })
onResultProcess(r, result) ==
  /\ phase[r] = "open"
  /\ phase' = [phase EXCEPT ![r] = "done"]
  /\ results' = [results EXCEPT ![r] = result]
  /\ IF isAsyncIterable(result)
     THEN /\ dispatch' = [dispatch EXCEPT ![r] = "streamed"]
          /\ UNCHANGED << tasks, errors >>
     ELSE IF ~ctxForReq[r].present
     THEN /\ dispatch' = [dispatch EXCEPT ![r] = "untraced"]
          /\ UNCHANGED << tasks, errors >>
     ELSE LET grouped == tracesPerSchema(ctxForReq[r].traces) IN
          IF grouped.threw
          THEN /\ dispatch' = [dispatch EXCEPT ![r] = "raised"]
               /\ errors' = errors \cup {<<r, "onResultProcess">>}
               /\ UNCHANGED tasks
          ELSE /\ dispatch' = [dispatch EXCEPT ![r] = "scheduled"]
               /\ tasks' = tasks \o scheduled(r, grouped)
               /\ UNCHANGED errors
  /\ UNCHANGED << options, env, yogaInit, schemaId, hashJobs, nChanges, latest,
                  ctxForReq, nOps >>

\* faulty variant of settled: the try block has no catch, so a transport
\* failure or a failing response.text() escapes the task
settledNoCatch(send, response, textOk) ==
  LET raised == response = "rejected" \/ ~textOk
      logged == IF raised THEN "none"
                ELSE IF response = "ok" THEN "debug" ELSE "error"
  IN [send EXCEPT !.pc = "done", !.response = response,
                  !.logged = logged, !.threw = raised]

\* The rest of sendTrace once fetch has settled: response is "ok", "notOk"
\* or "rejected" (transport failure); textOk tells whether response.text()
\* resolves.  Whatever the try block raises is caught and logged.
settled(send, response, textOk) ==
  LET raised == response = "rejected" \/ ~textOk
      logged == IF raised THEN "error"
                ELSE IF response = "ok" THEN "debug" ELSE "error"
  IN [send EXCEPT !.pc = "done", !.response = response,
                  !.logged = logged, !.threw = FALSE]

\* faulty variant of sendTraceSettled: the request path awaits the delivery,
\* so a failed delivery is raised into the handling of its request
sendTraceSettledAwaited(i, response, textOk) ==
  /\ i \in 1..Len(tasks)
  /\ tasks[i].send.pc = "fetching"
  /\ tasks' = [tasks EXCEPT ![i].send = settled(tasks[i].send, response, textOk)]
  /\ errors' = IF response = "ok" /\ textOk THEN errors
               ELSE errors \cup {<<tasks[i].request, "sendTrace">>}
  /\ UNCHANGED << options, env, yogaInit, schemaId, hashJobs, nChanges, latest,
                  phase, ctxForReq, nOps, results, dispatch >>

sendTraceSettled(i, response, textOk) ==
  /\ i \in 1..Len(tasks)
  /\ tasks[i].send.pc = "fetching"
  /\ tasks' = [tasks EXCEPT ![i].send = settled(tasks[i].send, response, textOk)]
  /\ UNCHANGED << options, env, yogaInit, schemaId, hashJobs, nChanges, latest,
                  phase, ctxForReq, nOps, errors, results, dispatch >>

Next ==
  \/ onYogaInit
  \/ \E schema \in Schemas \cup {Undef} : onSchemaChange(schema)
  \/ \E job \in hashJobs : hashResolved(job)
  \/ \E r \in Requests, present \in BOOLEAN : onRequest(r, present)
  \/ \E r \in Requests, hasContext \in BOOLEAN, traced \in BOOLEAN,
        operationName \in OperationNames, query \in Queries :
        onEnveloped(r, hasContext, traced, operationName, query)
  \/ \E r \in Requests, result \in Results : onResultProcess(r, result)
  \/ \E i \in 1..Len(tasks), response \in {"ok", "notOk", "rejected"},
        textOk \in BOOLEAN : sendTraceSettled(i, response, textOk)

Spec == Init /\ [][Next]_vars

\* The same actions from every configuration, for traced operations with a
\* well-formed query, results that are not streamed and deliveries that
\* succeed.
NextConfig ==
  \/ onYogaInit
  \/ \E schema \in Schemas :
        nChanges < ConfigSchemaChanges /\ onSchemaChange(schema)
  \/ \E job \in hashJobs : hashResolved(job)
  \/ \E r \in 1..ConfigRequests : onRequest(r, TRUE)
  \/ \E r \in 1..ConfigRequests :
        SumOps(Requests) < ConfigOps
          /\ onEnveloped(r, TRUE, TRUE, "Q", <<"{", "a", " ", "a", "}">>)
  \/ \E r \in Requests : onResultProcess(r, "executionResult")
  \/ \E i \in 1..Len(tasks) : sendTraceSettled(i, "ok", TRUE)

SpecConfig == InitConfig /\ [][NextConfig]_vars

\* The behaviours in which every activation carries the same schema, with
\* the requests of SpecConfig.
NextSameSchema ==
  \/ onYogaInit
  \/ \E schema \in Schemas \cup {Undef} :
        (schema = Undef \/ latest \in {Undef, printSchema(schema)})
          /\ onSchemaChange(schema)
  \/ \E job \in hashJobs : hashResolved(job)
  \/ \E r \in 1..ConfigRequests : onRequest(r, TRUE)
  \/ \E r \in 1..ConfigRequests :
        SumOps(Requests) < ConfigOps
          /\ onEnveloped(r, TRUE, TRUE, "Q", <<"{", "a", " ", "a", "}">>)
  \/ \E r \in Requests : onResultProcess(r, "executionResult")
  \/ \E i \in 1..Len(tasks) : sendTraceSettled(i, "ok", TRUE)

SpecSameSchema == Init /\ [][NextSameSchema]_vars

\* ================================================================ properties
TracesOf(r) == ctxForReq[r].traces
TasksOf(r) == {i \in 1..Len(tasks) : tasks[i].request = r}
ReportOf(i) == tasks[i].send.report
SchemaIdsOf(r) == {TracesOf(r)[i].schemaId : i \in 1..Len(TracesOf(r))}
Malformed(trace) == ~Truthy(trace.schemaId) \/ ~Truthy(trace.operationKey)
\* the request was dispatched with a result that is not streamed
Dispatched(r) == phase[r] = "done" /\ results[r] = "executionResult"
\* the payloads a report carries, over all its operation keys
PayloadsIn(report) ==
  UNION {{report.tracesPerQuery[k][j] : j \in 1..Len(report.tracesPerQuery[k])} :
           k \in DOMAIN report.tracesPerQuery}
\* the payloads of the records of a trace list that have the given key, in order
PayloadsFor(traces, key) ==
  LET sel == SelectSeq(traces, LAMBDA t : t.operationKey = key)
  IN [j \in 1..Len(sel) |-> sel[j].trace]

\* C1: a dispatch of a non-streamed result that does not raise schedules
\* exactly K delivery attempts when the records of the request span K
\* distinct schema ids (K >= 0): one per schema id, and the header of each
\* carries that schema id as executableSchemaId.
C1_OneAttemptPerSchemaId ==
  \A r \in Requests :
    (Dispatched(r) /\ <<r, "onResultProcess">> \notin errors) =>
      /\ Cardinality(TasksOf(r)) = Cardinality(SchemaIdsOf(r))
      /\ \A sid \in SchemaIdsOf(r) :
           Cardinality({i \in TasksOf(r) :
                          ReportOf(i).header.executableSchemaId = sid}) = 1

C1_Witness ==
  \E r \in Requests :
    /\ Dispatched(r) /\ <<r, "onResultProcess">> \notin errors
    /\ Cardinality(SchemaIdsOf(r)) = 2
    /\ Cardinality(TasksOf(r)) = 2

\* C2: when the N >= 1 records of a request all carry the same schema id,
\* dispatch produces exactly one report, for that schema id; its keys are the
\* operation keys of the records and the list of each key holds exactly the
\* payloads of the records with that key, so N payloads in total and records
\* with the same key accumulate.
C2_OneReportAllTraces ==
  \A r \in Requests :
    (/\ Dispatched(r)
     /\ Len(TracesOf(r)) >= 1
     /\ \E sid \in SchemaIdsOf(r) : Truthy(sid) /\ SchemaIdsOf(r) = {sid}) =>
      /\ Cardinality(TasksOf(r)) = 1
      /\ \A i \in TasksOf(r) :
           /\ SchemaIdsOf(r) = {ReportOf(i).header.executableSchemaId}
           /\ DOMAIN ReportOf(i).tracesPerQuery =
                {TracesOf(r)[j].operationKey : j \in 1..Len(TracesOf(r))}
           /\ \A key \in DOMAIN ReportOf(i).tracesPerQuery :
                ReportOf(i).tracesPerQuery[key] = PayloadsFor(TracesOf(r), key)
           /\ Cardinality(PayloadsIn(ReportOf(i))) = Len(TracesOf(r))

C2_Witness ==
  \E r \in Requests :
    /\ Dispatched(r)
    /\ Len(TracesOf(r)) = 2
    /\ Truthy(TracesOf(r)[1].schemaId)
    /\ TracesOf(r)[1].schemaId = TracesOf(r)[2].schemaId
    /\ TracesOf(r)[1].operationKey = TracesOf(r)[2].operationKey
    /\ \E i \in TasksOf(r) :
         Len(ReportOf(i).tracesPerQuery[TracesOf(r)[1].operationKey]) = 2

\* the envelope step of this transition stamped record i of request r
JustStamped(r, i) ==
  /\ nOps'[r] = nOps[r] + 1
  /\ i \in 1..Len(ctxForReq'[r].traces)
  /\ ctxForReq'[r].traces[i].context = <<r, nOps'[r]>>
  /\ Truthy(ctxForReq'[r].traces[i].operationKey)

\* C3: the schema id an envelope step stamps onto a record is the hash of
\* the schema of the most recent schema activation before that step.
C3_StampIsHashOfLatestSchema ==
  [][\A r \in Requests : \A i \in 1..MaxOps :
       (JustStamped(r, i) /\ latest # Undef) =>
         ctxForReq'[r].traces[i].schemaId = hashSHA256(latest)]_vars

\* C4: once initialization has succeeded, no envelope step, dispatch step or
\* delivery task raises an error.
C4_NothingSurfaces ==
  yogaInit = "ok" =>
    /\ errors = {}
    /\ \A i \in 1..Len(tasks) : ~tasks[i].send.threw

\* C5: a record without schemaId or without operationKey that reaches the
\* dispatch of a non-streamed result makes the dispatch raise: no delivery is
\* scheduled for the request, and no report ever carries such a record.
C5_MalformedRaises ==
  /\ \A r \in Requests :
       (/\ Dispatched(r)
        /\ \E i \in 1..Len(TracesOf(r)) : Malformed(TracesOf(r)[i])) =>
         /\ <<r, "onResultProcess">> \in errors
         /\ dispatch[r] = "raised"
         /\ TasksOf(r) = {}
  /\ \A r \in Requests : \A i \in 1..Len(TracesOf(r)) :
       Malformed(TracesOf(r)[i]) =>
         \A t \in 1..Len(tasks) : TracesOf(r)[i].trace \notin PayloadsIn(ReportOf(t))

C5_Witness ==
  \E r \in Requests :
    /\ Dispatched(r)
    /\ <<r, "onResultProcess">> \in errors
    /\ \E i, j \in 1..Len(TracesOf(r)) :
         /\ ~Truthy(TracesOf(r)[i].schemaId) /\ Truthy(TracesOf(r)[i].operationKey)
         /\ ~Truthy(TracesOf(r)[j].operationKey)

\* every record of request r is reported under the schema id it carries
ReportedUnderOwnId(r) ==
  \A j \in 1..Len(TracesOf(r)) :
    /\ dispatch[r] = "scheduled" =>
         \E i \in TasksOf(r) : TracesOf(r)[j].trace \in PayloadsIn(ReportOf(i))
    /\ \A i \in 1..Len(tasks) :
         TracesOf(r)[j].trace \in PayloadsIn(ReportOf(i)) =>
           ReportOf(i).header.executableSchemaId = TracesOf(r)[j].schemaId

\* C6: once an envelope step has stamped a record, no step changes the
\* schema id of the record, and dispatch reports the record under that id.
C6_StampedIdKept ==
  [][/\ \A r \in Requests : \A j \in 1..Len(TracesOf(r)) :
          Truthy(TracesOf(r)[j].operationKey) =>
            /\ j <= Len(ctxForReq'[r].traces)
            /\ ctxForReq'[r].traces[j].schemaId = TracesOf(r)[j].schemaId
     /\ \A r \in Requests : ReportedUnderOwnId(r)']_vars

C6_Witness ==
  \E r \in Requests : \E j \in 1..Len(TracesOf(r)) : \E i \in TasksOf(r) :
    /\ Truthy(TracesOf(r)[j].schemaId)
    /\ Truthy(schemaId)
    /\ TracesOf(r)[j].schemaId # schemaId
    /\ TracesOf(r)[j].trace \in PayloadsIn(ReportOf(i))
    /\ ReportOf(i).header.executableSchemaId = TracesOf(r)[j].schemaId

\* C7: a streamed result schedules no delivery and raises nothing, whatever
\* the trace set of the request holds.
C7_StreamedNoDelivery ==
  \A r \in Requests :
    (phase[r] = "done" /\ results[r] = "asyncIterable") =>
      /\ TasksOf(r) = {}
      /\ <<r, "onResultProcess">> \notin errors

C7_Witness ==
  \E r \in Requests :
    /\ phase[r] = "done" /\ results[r] = "asyncIterable"
    /\ ctxForReq[r].present
    /\ \E i, j \in 1..Len(TracesOf(r)) :
         Malformed(TracesOf(r)[i]) /\ ~Malformed(TracesOf(r)[j])

\* C8: a delivery task issues exactly one POST and never raises; when the
\* response is not a success or the transport fails, it logs an error.
C8_OnePostNeverRaises ==
  \A i \in 1..Len(tasks) :
    /\ tasks[i].send.posts = 1
    /\ ~tasks[i].send.threw
    /\ <<tasks[i].request, "sendTrace">> \notin errors
    /\ tasks[i].send.pc \in {"fetching", "done"}
    /\ tasks[i].send.pc = "done" =>
         /\ tasks[i].send.response \in {"ok", "notOk", "rejected"}
         /\ tasks[i].send.response # "ok" => tasks[i].send.logged = "error"

C8_Witness ==
  \E i, j \in 1..Len(tasks) :
    /\ tasks[i].send.pc = "done" /\ tasks[i].send.response = "rejected"
    /\ tasks[j].send.pc = "done" /\ tasks[j].send.response = "notOk"

\* a value is provided when the option or the environment variable is a
\* non-empty string
Provided(option, variable) ==
  (option # Undef /\ option # "") \/ (variable # Undef /\ variable # "")

\* C9: initialization fails exactly when the API key or the graph ref is
\* provided neither by the option nor by the environment variable.
C9_InitFailsIffMissing ==
  yogaInit # "pending" =>
    (yogaInit # "ok" <=>
       \/ ~Provided(options.apiKey, env.APOLLO_KEY)
       \/ ~Provided(options.graphRef, env.APOLLO_GRAPH_REF))

C9_Witness ==
  /\ yogaInit = "missingGraphRef"
  /\ options.apiKey = "" /\ env.APOLLO_KEY = "envKey"
  /\ options.graphRef = "" /\ env.APOLLO_GRAPH_REF = Undef

\* C10: every delivery attempt is sent with a present API key in x-api-key
\* and a present graph ref in the report header.
C10_CredentialsPresentWhenSent ==
  \A i \in 1..Len(tasks) :
    /\ Truthy(tasks[i].send.xApiKey)
    /\ Truthy(ReportOf(i).header.graphRef)

\* the errors raised into the handling of request r
ErrorsOf(r) == {e \in errors : e[1] = r}

\* C11: onResultProcess returns with every delivery it scheduled still
\* pending, and once it has returned no later step (a delivery that succeeds,
\* gets a non-success status or fails at transport level) changes how the
\* request completed.
C11_DispatchDoesNotWait ==
  [][\A r \in Requests :
       /\ (phase[r] = "open" /\ phase'[r] # "open") =>
            /\ phase'[r] = "done"
            /\ \A i \in 1..Len(tasks') :
                 (i > Len(tasks) /\ tasks'[i].request = r) =>
                   tasks'[i].send.pc = "fetching"
       /\ phase[r] = "done" =>
            /\ phase'[r] = "done"
            /\ results'[r] = results[r]
            /\ dispatch'[r] = dispatch[r]
            /\ {e \in errors' : e[1] = r} = ErrorsOf(r)]_vars

C11_Witness ==
  \E r \in Requests : \E i, j \in TasksOf(r) :
    /\ phase[r] = "done" /\ dispatch[r] = "scheduled" /\ ErrorsOf(r) = {}
    /\ tasks[i].send.pc = "fetching"
    /\ tasks[j].send.pc = "done" /\ tasks[j].send.response = "notOk"

\* the normalized text of the queries that lex, written out
NormalizedQuery(query) ==
  CASE query = UndefQuery -> ""
    [] query = <<>> -> ""
    [] query = <<"{", " ", "a", ",", " ", "a", " ", "}">> -> "{a a}"
    [] query = <<"{", "a", " ", "a", "}">> -> "{a a}"
LexableQueries == Queries \ {<<"?">>}
\* the operation name, or the placeholder when it is absent or empty
NameOrPlaceholder(operationName) ==
  CASE operationName = Undef -> "-"
    [] operationName = "" -> "-"
    [] operationName = "Q" -> "Q"

\* C12: an envelope step for an operation with a trace context leaves the
\* record with operationKey = "# " + (operation name, or "-" when it is
\* absent or empty) + newline + normalized query ("" without a query).
C12_OperationKeyFormat ==
  [][\A r \in Requests, operationName \in OperationNames,
        query \in LexableQueries :
       (ctxForReq[r].present
          /\ onEnveloped(r, TRUE, TRUE, operationName, query)) =>
         LET traces == ctxForReq'[r].traces IN
           /\ Len(traces) = Len(ctxForReq[r].traces) + 1
           /\ traces[Len(traces)].operationKey =
                "# " \o NameOrPlaceholder(operationName) \o "\n"
                     \o NormalizedQuery(query)]_vars

C12_Witness ==
  \E r, q \in Requests :
    \E i \in 1..Len(TracesOf(r)), j \in 1..Len(TracesOf(q)) :
      /\ TracesOf(r)[i].operationKey = "# -\n{a a}"
      /\ TracesOf(q)[j].operationKey = "# Q\n"

\* C13: every record an envelope step has stamped has both operationKey and
\* schemaId set when its request is dispatched.
C13_StampedRecordsComplete ==
  \A r \in Requests : \A i \in 1..Len(TracesOf(r)) :
    (phase[r] = "done" /\ Truthy(TracesOf(r)[i].operationKey)) =>
      Truthy(TracesOf(r)[i].schemaId)

\* C14: once every pending hash has completed, the current schema id is the
\* hash of the most recently activated schema.
C14_QuiescentIdIsLatest ==
  (hashJobs = {} /\ latest # Undef) => schemaId = hashSHA256(latest)

\* C15: when the same schema is activated again and again, the current
\* schema id is the hash of that schema once every hash has completed, as
\* after one activation; a notification without a schema changes neither the
\* current schema id nor the pending hashes.
C15_ActivationIdempotent ==
  [][/\ (hashJobs' = {} /\ latest' # Undef) => schemaId' = hashSHA256(latest')
     /\ onSchemaChange(Undef) =>
          /\ schemaId' = schemaId
          /\ hashJobs' = hashJobs
          /\ latest' = latest]_vars

\* the schema has been activated twice, and the first hash has completed
C15_Witness ==
  /\ latest # Undef
  /\ hashJobs = {[id |-> 2, str |-> latest]}
  /\ schemaId = hashSHA256(latest)

\* C16: when the dispatch of a request raises because of a malformed record,
\* no delivery is scheduled for any schema group of the request, the groups
\* of well-formed records iterated before the malformed one included.
C16_RaiseSchedulesNothing ==
  \A r \in Requests :
    <<r, "onResultProcess">> \in errors =>
      /\ TasksOf(r) = {}
      /\ \A i \in 1..Len(tasks) : \A j \in 1..Len(TracesOf(r)) :
           TracesOf(r)[j].trace \notin PayloadsIn(ReportOf(i))

C16_Witness ==
  \E r \in Requests :
    /\ <<r, "onResultProcess">> \in errors
    /\ Len(TracesOf(r)) = 2
    /\ ~Malformed(TracesOf(r)[1])
    /\ Malformed(TracesOf(r)[2])

\* the payloads of the records of request r
PayloadsOf(r) == {TracesOf(r)[j].trace : j \in 1..Len(TracesOf(r))}

\* C17: the reports scheduled by the dispatch of a request carry only
\* payloads of the records of that request.
C17_ReportsHoldOwnPayloads ==
  \A i \in 1..Len(tasks) :
    /\ PayloadsIn(ReportOf(i)) \subseteq PayloadsOf(tasks[i].request)
    /\ \A q \in Requests \ {tasks[i].request} :
         PayloadsIn(ReportOf(i)) \cap PayloadsOf(q) = {}

\* two requests in flight at the same time, each with a record, one of them
\* dispatched
C17_Witness ==
  \E r, q \in Requests :
    /\ r # q
    /\ TasksOf(r) # {}
    /\ phase[q] = "open"
    /\ \E j \in 1..Len(TracesOf(q)) : ~Malformed(TracesOf(q)[j])

\* C18: an envelope step for an operation that has no context or no trace
\* context creates no record, changes no record and no current schema id, and
\* raises nothing; a dispatch for a request that has no trace set schedules
\* no delivery and raises nothing.
C18_AbsenceIsNoOp ==
  [][\A r \in Requests :
       /\ \A hasContext \in BOOLEAN, traced \in BOOLEAN,
             operationName \in OperationNames, query \in Queries :
            (/\ ~(hasContext /\ traced /\ ctxForReq[r].present)
             /\ onEnveloped(r, hasContext, traced, operationName, query)) =>
              /\ ctxForReq' = ctxForReq
              /\ schemaId' = schemaId
              /\ errors' = errors
              /\ tasks' = tasks
       /\ \A result \in Results :
            (~ctxForReq[r].present /\ onResultProcess(r, result)) =>
              /\ tasks' = tasks
              /\ errors' = errors
              /\ ctxForReq' = ctxForReq]_vars

\* a request with a stamped record and a later operation that was not traced,
\* and a request without a trace set that was dispatched
C18_Witness ==
  \E r, q \in Requests :
    /\ nOps[r] = 2 /\ Len(TracesOf(r)) = 1
    /\ ~Malformed(TracesOf(r)[1])
    /\ ~ctxForReq[q].present
    /\ phase[q] = "done" /\ results[q] = "executionResult"

\* C19: every report sent has operationCount equal to 1, whatever the number
\* of payloads and of distinct operation keys it carries.
C19_OperationCountIsOne ==
  \A i \in 1..Len(tasks) : ReportOf(i).operationCount = 1

\* a report that groups two operations of a request under two operation keys
C19_Witness ==
  \E i \in 1..Len(tasks) :
    /\ Cardinality(DOMAIN ReportOf(i).tracesPerQuery) = 2
    /\ Cardinality(PayloadsIn(ReportOf(i))) = 2
====
